---- MODULE Spec2Model ----
(***************************************************************************)
(* Model of the blog backend's post and comment data-access layer          *)
(* (server/controllers/postcontroller.js, commentcontroller.js and the     *)
(* routes that wire them).                                                 *)
(* Strings are sequences of one-character strings, so that substring,      *)
(* parseInt, slug derivation and the identifier test are computed.         *)
(* A request field that is absent and one that is the empty string are     *)
(* both the empty sequence: every use of a field in the controller         *)
(* (truthiness tests, notEmpty, parseInt, === 'true') treats them alike.   *)
(***************************************************************************)
EXTENDS Integers, Sequences, FiniteSets, TLC

VARIABLES posts, nextId, now, req, res, commentDocs, calls, files, categories, client

vars == <<posts, nextId, now, req, res, commentDocs, calls, files, categories, client>>

(***************************************************************************)
(* Bounds                                                                  *)
(***************************************************************************)
MaxPosts == 2
MaxViews == 2
MaxListPosts == 3
MaxPage == 3
MaxComments == 2
MaxCommentDocs == 1
MaxCalls == 2
MaxPassword == 9
DelaySteps == 3

(***************************************************************************)
(* Program constants                                                       *)
(***************************************************************************)
ExcerptLen == 200
ExcerptMax == 200
TitleMax == 100
ObjectIdLen == 24
DefaultPage == 1
DefaultLimit == 10
PasswordMin == 8
AutoSaveDelay == 30000
SearchCap == 20

(***************************************************************************)
(* Strings                                                                 *)
(***************************************************************************)
Digits == <<"0", "1", "2", "3", "4", "5", "6", "7", "8", "9">>

DigitVal(c) == (CHOOSE i \in 1..10 : Digits[i] = c) - 1

IsDigit(c) == c \in {"0", "1", "2", "3", "4", "5", "6", "7", "8", "9"}

IsHex(c) == c \in {"a", "b", "c", "d", "e", "f", "A", "B", "C", "D", "E", "F"} \/ IsDigit(c)

IsSpace(c) == c = " "

Upper == <<"A", "B", "C", "D", "E", "F", "X", "Y">>

LowerOf == <<"a", "b", "c", "d", "e", "f", "x", "y">>

ToLower(c) == IF \E i \in 1..Len(Upper) : Upper[i] = c
              THEN LowerOf[CHOOSE i \in 1..Len(Upper) : Upper[i] = c]
              ELSE c

Rep(n, c) == [i \in 1..n |-> c]

Text(n) == [i \in 1..n |-> IF i % 3 = 1 THEN "a" ELSE IF i % 3 = 2 THEN "b" ELSE "c"]

Substring(s, from, to) ==
  LET hi == IF to > Len(s) THEN Len(s) ELSE to
  IN  IF from >= hi THEN <<>> ELSE SubSeq(s, from + 1, hi)

Ellipsis == <<".", ".", ".">>

StrTrue == <<"t", "r", "u", "e">>

(***************************************************************************)
(* Identifiers: mongoose.Types.ObjectId.isValid and isMongoId accept a     *)
(* string of 24 hexadecimal characters.                                    *)
(***************************************************************************)
IsValidObjectId(s) == Len(s) = ObjectIdLen /\ \A i \in 1..Len(s) : IsHex(s[i])

IdStr(n) == Rep(ObjectIdLen - 1, "0") \o <<Digits[n + 1]>>

CatStr(n) == Rep(ObjectIdLen - 2, "0") \o <<"c", Digits[n + 1]>>

(***************************************************************************)
(* Users (the auth middleware has put req.user on every request that       *)
(* reaches a protected handler).                                           *)
(***************************************************************************)
Users == { [id |-> "u1", role |-> "user"],
           [id |-> "u2", role |-> "user"],
           [id |-> "adm", role |-> "admin"] }

NoUser == [id |-> "", role |-> ""]

(***************************************************************************)
(* Request and response shapes                                             *)
(***************************************************************************)
EmptyBody == [title |-> <<>>, content |-> <<>>, category |-> <<>>, tags |-> <<>>,
              excerpt |-> <<>>, isPublished |-> <<>>, file |-> "",
              author |-> ""]

EmptyQuery == [page |-> <<>>, limit |-> <<>>, category |-> <<>>, search |-> <<>>,
               sort |-> <<>>, q |-> <<>>]

NoPost == [id |-> 0]

NoPage == [name |-> ""]

NoPagination == [page |-> 0, limit |-> 0, total |-> 0, pages |-> 0]

Request(op, actor, param, body, query) ==
  [op |-> op, actor |-> actor, param |-> param, body |-> body, query |-> query]

Response(status, post, items, pagination, errors) ==
  [status |-> status, post |-> post, items |-> items,
   pagination |-> pagination, errors |-> errors]

Answer(status) == Response(status, NoPost, <<>>, NoPagination, {})

(***************************************************************************)
(* express-validator chain of the post routes                              *)
(***************************************************************************)
postValidationNoCategory(body) ==
  (IF body.title = <<>> THEN {"title"} ELSE {})
  \cup (IF body.content = <<>> THEN {"content"} ELSE {})

postValidation(body) ==
  (IF body.title = <<>> THEN {"title"} ELSE {})
  \cup (IF body.content = <<>> THEN {"content"} ELSE {})
  \cup (IF ~IsValidObjectId(body.category) THEN {"category"} ELSE {})

(***************************************************************************)
(* tags.split(',').map(tag => tag.trim())                                  *)
(***************************************************************************)
RECURSIVE Split(_, _)
Split(s, sep) ==
  IF \E i \in 1..Len(s) : s[i] = sep
  THEN LET k == CHOOSE i \in 1..Len(s) :
                  s[i] = sep /\ \A j \in 1..(i - 1) : s[j] # sep
       IN  <<SubSeq(s, 1, k - 1)>> \o Split(SubSeq(s, k + 1, Len(s)), sep)
  ELSE <<s>>

RECURSIVE Trim(_)
Trim(s) ==
  IF s = <<>> THEN s
  ELSE IF IsSpace(s[1]) THEN Trim(Tail(s))
  ELSE IF IsSpace(s[Len(s)]) THEN Trim(SubSeq(s, 1, Len(s) - 1))
  ELSE s

ParseTags(tags) ==
  IF tags # <<>>
  THEN LET pieces == Split(tags, ",")
       IN  [i \in 1..Len(pieces) |-> Trim(pieces[i])]
  ELSE <<>>

(***************************************************************************)
(* Post model (models/post): slug derivation, schema validators and the    *)
(* incrementViewCount method.                                              *)
(***************************************************************************)
IsWordChar(c) == IsDigit(c) \/ c = "_" \/ c = "-"
                 \/ \E i \in 1..Len(LowerOf) : LowerOf[i] = c

Slugify(title) ==
  LET lowered == [i \in 1..Len(title) |->
                    IF IsSpace(title[i]) THEN "-" ELSE ToLower(title[i])]
  IN  SelectSeq(lowered, IsWordChar)

SchemaErrors(doc) ==
  (IF Len(doc.title) > TitleMax THEN {"title"} ELSE {})
  \cup (IF Len(doc.excerpt) > ExcerptMax THEN {"excerpt"} ELSE {})

SlugTaken(slug) == \E i \in DOMAIN posts : posts[i].slug = slug

incrementViewCount(post) == [post EXCEPT !.viewCount = @ + 1]

(***************************************************************************)
(* createPost                                                              *)
(***************************************************************************)
DeriveExcerpt(content) == Substring(content, 0, ExcerptLen) \o Ellipsis

FeaturedImage(file) == <<"/uploads/", file>>

NoImage == <<"", "">>

CreatePostAuthorFromBody(actor, body) ==
  /\ req' = Request("createPost", actor, <<>>, body, EmptyQuery)
  /\ UNCHANGED <<commentDocs, calls, files, categories, client>>
  /\ IF postValidation(body) # {}
     THEN /\ res' = Response(400, NoPost, <<>>, NoPagination, postValidation(body))
          /\ UNCHANGED <<posts, nextId, now>>
     ELSE LET postData ==
                [id |-> nextId,
                 title |-> body.title,
                 slug |-> Slugify(body.title),
                 content |-> body.content,
                 category |-> body.category,
                 author |-> IF body.author # "" THEN body.author ELSE actor.id,
                 tags |-> ParseTags(body.tags),
                 isPublished |-> (body.isPublished = StrTrue),
                 excerpt |-> IF body.excerpt # <<>> THEN body.excerpt
                             ELSE DeriveExcerpt(body.content),
                 featuredImage |-> IF body.file # "" THEN FeaturedImage(body.file)
                                   ELSE NoImage,
                 viewCount |-> 0,
                 comments |-> <<>>,
                 createdAt |-> now]
          IN  IF SchemaErrors(postData) # {} \/ SlugTaken(postData.slug)
              THEN /\ res' = Answer(500)
                   /\ UNCHANGED <<posts, nextId, now>>
              ELSE /\ posts' = [i \in DOMAIN posts \cup {nextId} |->
                                  IF i = nextId THEN postData ELSE posts[i]]
                   /\ nextId' = nextId + 1
                   /\ now' = now + 1
                   /\ res' = Response(201, postData, <<>>, NoPagination, {})

CreatePost(actor, body) ==
  /\ req' = Request("createPost", actor, <<>>, body, EmptyQuery)
  /\ UNCHANGED <<commentDocs, calls, files, categories, client>>
  /\ IF postValidation(body) # {}
     THEN /\ res' = Response(400, NoPost, <<>>, NoPagination, postValidation(body))
          /\ UNCHANGED <<posts, nextId, now>>
     ELSE LET postData ==
                [id |-> nextId,
                 title |-> body.title,
                 slug |-> Slugify(body.title),
                 content |-> body.content,
                 category |-> body.category,
                 author |-> actor.id,
                 tags |-> ParseTags(body.tags),
                 isPublished |-> (body.isPublished = StrTrue),
                 excerpt |-> IF body.excerpt # <<>> THEN body.excerpt
                             ELSE DeriveExcerpt(body.content),
                 featuredImage |-> IF body.file # "" THEN FeaturedImage(body.file)
                                   ELSE NoImage,
                 viewCount |-> 0,
                 comments |-> <<>>,
                 createdAt |-> now]
          IN  IF SchemaErrors(postData) # {} \/ SlugTaken(postData.slug)
              THEN /\ res' = Answer(500)
                   /\ UNCHANGED <<posts, nextId, now>>
              ELSE /\ posts' = [i \in DOMAIN posts \cup {nextId} |->
                                  IF i = nextId THEN postData ELSE posts[i]]
                   /\ nextId' = nextId + 1
                   /\ now' = now + 1
                   /\ res' = Response(201, postData, <<>>, NoPagination, {})

(***************************************************************************)
(* Store lookups                                                           *)
(***************************************************************************)
FindById(param) == {i \in DOMAIN posts : IdStr(i) = param}

FindBySlug(param) == {i \in DOMAIN posts : posts[i].slug = param}

AuthorizedAnyone(post, actor) == TRUE

AuthorizedRoleTestInverted(post, actor) == ~(post.author # actor.id /\ actor.role = "admin")

Authorized(post, actor) == ~(post.author # actor.id /\ actor.role # "admin")

(***************************************************************************)
(* getPost                                                                 *)
(***************************************************************************)
GetPostLookup(param) ==
  IF IsValidObjectId(param) THEN FindById(param) ELSE FindBySlug(param)

GetPostNoSave(param) ==
  /\ req' = Request("getPost", NoUser, param, EmptyBody, EmptyQuery)
  /\ UNCHANGED <<commentDocs, calls, files, categories, client>>
  /\ UNCHANGED <<nextId, now, posts>>
  /\ IF GetPostLookup(param) = {}
     THEN res' = Answer(404)
     ELSE LET i == CHOOSE j \in GetPostLookup(param) : TRUE
          IN  res' = Response(200, incrementViewCount(posts[i]), <<>>, NoPagination, {})

GetPost(param) ==
  /\ req' = Request("getPost", NoUser, param, EmptyBody, EmptyQuery)
  /\ UNCHANGED <<commentDocs, calls, files, categories, client>>
  /\ UNCHANGED <<nextId, now>>
  /\ IF GetPostLookup(param) = {}
     THEN /\ res' = Answer(404)
          /\ UNCHANGED posts
     ELSE LET i == CHOOSE j \in GetPostLookup(param) : TRUE
              post == incrementViewCount(posts[i])
          IN  /\ posts' = [posts EXCEPT ![i] = post]
              /\ res' = Response(200, post, <<>>, NoPagination, {})

(***************************************************************************)
(* updatePost                                                              *)
(***************************************************************************)
UpdateDataKeepsOmitted(post, body) ==
  [title |-> body.title,
   content |-> body.content,
   category |-> body.category,
   tags |-> IF body.tags = <<>> THEN post.tags ELSE ParseTags(body.tags),
   isPublished |-> IF body.isPublished = <<>> THEN post.isPublished
                   ELSE body.isPublished = StrTrue,
   hasExcerpt |-> (body.excerpt # <<>>
                   \/ (body.content # <<>> /\ body.content # post.content)),
   excerpt |-> IF body.excerpt # <<>> THEN body.excerpt
               ELSE DeriveExcerpt(body.content),
   hasImage |-> (body.file # ""),
   featuredImage |-> FeaturedImage(body.file)]

UpdateDataAlwaysDerive(post, body) ==
  [title |-> body.title,
   content |-> body.content,
   category |-> body.category,
   tags |-> ParseTags(body.tags),
   isPublished |-> (body.isPublished = StrTrue),
   hasExcerpt |-> TRUE,
   excerpt |-> IF body.excerpt # <<>> THEN body.excerpt
               ELSE DeriveExcerpt(body.content),
   hasImage |-> (body.file # ""),
   featuredImage |-> FeaturedImage(body.file)]

UpdateData(post, body) ==
  [title |-> body.title,
   content |-> body.content,
   category |-> body.category,
   tags |-> ParseTags(body.tags),
   isPublished |-> (body.isPublished = StrTrue),
   hasExcerpt |-> (body.excerpt # <<>>
                   \/ (body.content # <<>> /\ body.content # post.content)),
   excerpt |-> IF body.excerpt # <<>> THEN body.excerpt
               ELSE DeriveExcerpt(body.content),
   hasImage |-> (body.file # ""),
   featuredImage |-> FeaturedImage(body.file)]

RunValidatorsOff(u) == {}

RunValidators(u) ==
  SchemaErrors([title |-> u.title,
                excerpt |-> IF u.hasExcerpt THEN u.excerpt ELSE <<>>])

FindByIdAndUpdateImageAlways(post, u) ==
  [post EXCEPT !.title = u.title, !.content = u.content, !.category = u.category,
               !.tags = u.tags, !.isPublished = u.isPublished,
               !.excerpt = IF u.hasExcerpt THEN u.excerpt ELSE @,
               !.featuredImage = u.featuredImage]

FindByIdAndUpdate(post, u) ==
  [post EXCEPT !.title = u.title, !.content = u.content, !.category = u.category,
               !.tags = u.tags, !.isPublished = u.isPublished,
               !.excerpt = IF u.hasExcerpt THEN u.excerpt ELSE @,
               !.featuredImage = IF u.hasImage THEN u.featuredImage ELSE @]

UpdatePost(actor, param, body) ==
  /\ req' = Request("updatePost", actor, param, body, EmptyQuery)
  /\ UNCHANGED <<commentDocs, calls, files, categories, client>>
  /\ UNCHANGED <<nextId, now>>
  /\ IF postValidation(body) # {}
     THEN /\ res' = Response(400, NoPost, <<>>, NoPagination, postValidation(body))
          /\ UNCHANGED posts
     ELSE IF ~IsValidObjectId(param)
     THEN /\ res' = Answer(500)
          /\ UNCHANGED posts
     ELSE IF FindById(param) = {}
     THEN /\ res' = Answer(404)
          /\ UNCHANGED posts
     ELSE LET i == CHOOSE j \in FindById(param) : TRUE
              updateData == UpdateData(posts[i], body)
              post == FindByIdAndUpdate(posts[i], updateData)
          IN  IF ~Authorized(posts[i], actor)
              THEN /\ res' = Answer(403)
                   /\ UNCHANGED posts
              ELSE IF RunValidators(updateData) # {}
              THEN /\ res' = Answer(500)
                   /\ UNCHANGED posts
              ELSE /\ posts' = [posts EXCEPT ![i] = post]
                   /\ res' = Response(200, post, <<>>, NoPagination, {})

(***************************************************************************)
(* deletePost                                                              *)
(***************************************************************************)
DeletePost(actor, param) ==
  /\ req' = Request("deletePost", actor, param, EmptyBody, EmptyQuery)
  /\ UNCHANGED <<commentDocs, calls, files, categories, client>>
  /\ UNCHANGED <<nextId, now>>
  /\ IF ~IsValidObjectId(param)
     THEN /\ res' = Answer(500)
          /\ UNCHANGED posts
     ELSE IF FindById(param) = {}
     THEN /\ res' = Answer(404)
          /\ UNCHANGED posts
     ELSE LET i == CHOOSE j \in FindById(param) : TRUE
          IN  IF ~Authorized(posts[i], actor)
              THEN /\ res' = Answer(403)
                   /\ UNCHANGED posts
              ELSE /\ posts' = [j \in DOMAIN posts \ {i} |-> posts[j]]
                   /\ res' = Answer(200)

(***************************************************************************)
(* addComment of the post controller: the comment is embedded in the post. *)
(* post.addComment (models/post) appends { user, content } to the post's   *)
(* comments and saves; the handler then reads the post again and answers   *)
(* with its comments.                                                      *)
(***************************************************************************)
addComment(post, userId, content) ==
  [post EXCEPT !.comments = Append(@, [user |-> userId, content |-> content])]

CommentBody(content) == [EmptyBody EXCEPT !.content = content]

AddCommentAsPostAuthor(actor, param, content) ==
  /\ req' = Request("addComment", actor, param, CommentBody(content), EmptyQuery)
  /\ UNCHANGED <<nextId, now, commentDocs, calls, files, categories, client>>
  /\ IF content = <<>>
     THEN /\ res' = Answer(400)
          /\ UNCHANGED posts
     ELSE IF ~IsValidObjectId(param)
     THEN /\ res' = Answer(500)
          /\ UNCHANGED posts
     ELSE IF FindById(param) = {}
     THEN /\ res' = Answer(404)
          /\ UNCHANGED posts
     ELSE LET i == CHOOSE j \in FindById(param) : TRUE
              updatedPost == addComment(posts[i], posts[i].author, content)
          IN  /\ posts' = [posts EXCEPT ![i] = updatedPost]
              /\ res' = Response(201, NoPost, updatedPost.comments, NoPagination, {})

AddComment(actor, param, content) ==
  /\ req' = Request("addComment", actor, param, CommentBody(content), EmptyQuery)
  /\ UNCHANGED <<nextId, now, commentDocs, calls, files, categories, client>>
  /\ IF content = <<>>
     THEN /\ res' = Answer(400)
          /\ UNCHANGED posts
     ELSE IF ~IsValidObjectId(param)
     THEN /\ res' = Answer(500)
          /\ UNCHANGED posts
     ELSE IF FindById(param) = {}
     THEN /\ res' = Answer(404)
          /\ UNCHANGED posts
     ELSE LET i == CHOOSE j \in FindById(param) : TRUE
              updatedPost == addComment(posts[i], actor.id, content)
          IN  /\ posts' = [posts EXCEPT ![i] = updatedPost]
              /\ res' = Response(201, NoPost, updatedPost.comments, NoPagination, {})

(***************************************************************************)
(* addComment of the comment controller: the comment is a document of its  *)
(* own in the comments collection, referring to the post by identifier.    *)
(* The Comment schema (models/comment) requires a non-empty content.       *)
(***************************************************************************)
CommentSchemaErrors(doc) == IF doc.content = <<>> THEN {"content"} ELSE {}

CommentAddComment(actor, param, content) ==
  /\ req' = Request("comment.addComment", actor, param, CommentBody(content), EmptyQuery)
  /\ UNCHANGED <<posts, nextId, now, calls, files, categories, client>>
  /\ IF ~IsValidObjectId(param)
     THEN /\ res' = Answer(500)
          /\ UNCHANGED commentDocs
     ELSE IF FindById(param) = {}
     THEN /\ res' = Answer(404)
          /\ UNCHANGED commentDocs
     ELSE LET comment == [content |-> content, author |-> actor.id, post |-> param]
          IN  IF CommentSchemaErrors(comment) # {}
              THEN /\ res' = Answer(500)
                   /\ UNCHANGED commentDocs
              ELSE /\ commentDocs' = Append(commentDocs, comment)
                   /\ res' = Response(201, NoPost, <<comment>>, NoPagination, {})

(***************************************************************************)
(* getPosts and searchPosts                                                *)
(***************************************************************************)
RECURSIVE SkipSpaces(_)
SkipSpaces(s) == IF s # <<>> /\ IsSpace(s[1]) THEN SkipSpaces(Tail(s)) ELSE s

RECURSIVE DigitsValue(_, _)
DigitsValue(s, acc) ==
  IF s # <<>> /\ IsDigit(s[1])
  THEN DigitsValue(Tail(s), 10 * acc + DigitVal(s[1]))
  ELSE acc

\* parseInt of a decimal string: leading blanks, an optional sign, then the
\* longest run of digits; NaN when there is no digit.
ParseInt(s) ==
  LET t == SkipSpaces(s)
      neg == t # <<>> /\ t[1] = "-"
      u == IF t # <<>> /\ t[1] \in {"-", "+"} THEN Tail(t) ELSE t
  IN  IF u = <<>> \/ ~IsDigit(u[1])
      THEN [nan |-> TRUE, val |-> 0]
      ELSE [nan |-> FALSE,
            val |-> IF neg THEN 0 - DigitsValue(u, 0) ELSE DigitsValue(u, 0)]

\* parseInt(x) || d
OrDefault(n, d) == IF n.nan \/ n.val = 0 THEN d ELSE n.val

SkipPageTimesLimit(page, limit) == page * limit

Skip(page, limit) == (page - 1) * limit

\* Math.ceil(total / limit), limit # 0
Pages(total, limit) ==
  IF limit > 0 THEN (total + limit - 1) \div limit
  ELSE 0 - (total \div (0 - limit))

\* A pattern of the alphabet used here is a valid regular expression unless
\* it holds an unbalanced "("; "." matches any character, every other
\* character matches itself, ignoring case ($options: 'i').
RegexValid(pattern) == \A i \in 1..Len(pattern) : pattern[i] # "("

RegexTest(pattern, text) ==
  \E k \in 0..(Len(text) - Len(pattern)) :
    \A j \in 1..Len(pattern) :
      pattern[j] = "." \/ ToLower(pattern[j]) = ToLower(text[k + j])

SearchMatch(post, pattern) ==
  \/ RegexTest(pattern, post.title)
  \/ RegexTest(pattern, post.content)
  \/ \E t \in 1..Len(post.tags) : RegexTest(pattern, post.tags[t])

ListFilterAnyState(query) ==
  {i \in DOMAIN posts :
     /\ (query.category # <<>> => posts[i].category = query.category)
     /\ (query.search # <<>> => SearchMatch(posts[i], query.search))}

ListFilter(query) ==
  {i \in DOMAIN posts :
     /\ posts[i].isPublished = TRUE
     /\ (query.category # <<>> => posts[i].category = query.category)
     /\ (query.search # <<>> => SearchMatch(posts[i], query.search))}

SearchFilter(q) ==
  {i \in DOMAIN posts : posts[i].isPublished = TRUE /\ SearchMatch(posts[i], q)}

\* .sort({ createdAt: -1 })
RECURSIVE SortNewestFirst(_)
SortNewestFirst(ids) ==
  IF ids = {} THEN <<>>
  ELSE LET m == CHOOSE i \in ids : \A j \in ids : posts[j].createdAt <= posts[i].createdAt
       IN  <<posts[m]>> \o SortNewestFirst(ids \ {m})

Abs(n) == IF n < 0 THEN 0 - n ELSE n

\* .skip(skip).limit(limit): the driver sends a negative limit as its
\* absolute value
SkipLimit(sorted, skip, limit) ==
  LET lo == skip + 1
      hi == IF skip + Abs(limit) > Len(sorted) THEN Len(sorted) ELSE skip + Abs(limit)
  IN  IF lo > hi THEN <<>> ELSE SubSeq(sorted, lo, hi)

GetPostsResponse(query) ==
  LET page == OrDefault(ParseInt(query.page), DefaultPage)
      limit == OrDefault(ParseInt(query.limit), DefaultLimit)
      skip == Skip(page, limit)
      filter == ListFilter(query)
      total == Cardinality(filter)
  IN  IF \/ (query.category # <<>> /\ ~IsValidObjectId(query.category))
         \/ (query.search # <<>> /\ ~RegexValid(query.search))
         \/ skip < 0
      THEN Answer(500)
      ELSE Response(200, NoPost,
                    SkipLimit(SortNewestFirst(filter), skip, limit),
                    [page |-> page, limit |-> limit, total |-> total,
                     pages |-> Pages(total, limit)],
                    {})

GetPosts(query) ==
  /\ req' = Request("getPosts", NoUser, <<>>, EmptyBody, query)
  /\ UNCHANGED <<commentDocs, calls, files, categories, client>>
  /\ UNCHANGED <<posts, nextId, now>>
  /\ res' = GetPostsResponse(query)

SearchPostsResponse(q) ==
  IF q = <<>>
  THEN Answer(400)
  ELSE IF ~RegexValid(q)
  THEN Answer(500)
  ELSE Response(200, NoPost,
                SkipLimit(SortNewestFirst(SearchFilter(q)), 0, SearchCap),
                NoPagination, {})

SearchPosts(q) ==
  /\ req' = Request("searchPosts", NoUser, <<>>, EmptyBody, [EmptyQuery EXCEPT !.q = q])
  /\ UNCHANGED <<commentDocs, calls, files, categories, client>>
  /\ UNCHANGED <<posts, nextId, now>>
  /\ res' = SearchPostsResponse(q)

(***************************************************************************)
(* Inputs of the requests                                                  *)
(***************************************************************************)
TitleAb == <<"A", "b">>

TitleHex == Rep(ObjectIdLen, "a")

StrOf(n) == <<Digits[n + 1]>>

TagsXY == <<"x", ",", " ", "Y">>

Owner == CHOOSE u \in Users : u.id = "u1"

Bodies ==
  [title : {<<>>, TitleAb, TitleHex},
   content : {Text(2)},
   category : {CatStr(1)},
   tags : {<<>>},
   excerpt : {<<>>},
   isPublished : {<<>>, StrTrue},
   file : {""},
   author : {""}]

UpdateBodies == {b \in Bodies : b.title # TitleHex}

IdParams == {IdStr(i) : i \in 1..MaxPosts}

MutateParams == IdParams \cup {<<"a", "b">>}

GetParams == IdParams \cup {<<"a", "b">>, TitleHex, <<"x">>}

ViewsBelowCap(param) ==
  \A i \in GetPostLookup(param) : posts[i].viewCount < MaxViews

Init ==
  /\ posts = <<>>
  /\ nextId = 1
  /\ now = 1
  /\ req = Request("init", NoUser, <<>>, EmptyBody, EmptyQuery)
  /\ res = Answer(0)
  /\ commentDocs = <<>>
  /\ calls = <<>>
  /\ files = {}
  /\ categories = {}
  /\ client = NoPage

(***************************************************************************)
(* Spec: one author's posts through their life, read one at a time         *)
(***************************************************************************)
DoCreatePost ==
  /\ nextId <= MaxPosts
  /\ \E body \in Bodies : CreatePost(Owner, body)

DoUpdatePost ==
  \E param \in MutateParams, body \in UpdateBodies : UpdatePost(Owner, param, body)

DoDeletePost == \E param \in MutateParams : DeletePost(Owner, param)

DoGetPost ==
  \E param \in GetParams : ViewsBelowCap(param) /\ GetPost(param)

Next ==
  \/ DoCreatePost
  \/ DoUpdatePost
  \/ DoDeletePost
  \/ DoGetPost

Spec == Init /\ [][Next]_vars

(***************************************************************************)
(* SpecAuth: several users mutating each other's posts                     *)
(***************************************************************************)
AuthCreateBodies == {b \in Bodies : b.isPublished = StrTrue}

AuthUpdateBodies == {b \in UpdateBodies : b.title = <<>> => b.isPublished = <<>>}

AuthCreatePost ==
  /\ nextId <= MaxPosts
  /\ \E actor \in Users, body \in AuthCreateBodies : CreatePost(actor, body)

AuthUpdatePost ==
  \E actor \in Users, param \in MutateParams, body \in AuthUpdateBodies :
    UpdatePost(actor, param, body)

AuthDeletePost ==
  \E actor \in Users, param \in MutateParams : DeletePost(actor, param)

NextAuth ==
  \/ AuthCreatePost
  \/ AuthUpdatePost
  \/ AuthDeletePost

SpecAuth == Init /\ [][NextAuth]_vars

(***************************************************************************)
(* SpecList: one author's posts, listed and searched                       *)
(***************************************************************************)
TitleBc == <<"b", "c">>

TitleX == <<"X">>

NumStr(n) == IF n < 10 THEN StrOf(n) ELSE StrOf(n \div 10) \o StrOf(n % 10)

SortOldest == <<"c", "r", "e", "a", "t", "e", "d", "A", "t">>

SortNewest == <<"-">> \o SortOldest

ListBodies ==
  {b \in [title : {TitleAb, TitleBc, TitleX},
          content : {Text(2)},
          category : {CatStr(1), CatStr(2)},
          tags : {<<>>},
          excerpt : {<<>>},
          isPublished : {<<>>, StrTrue},
          file : {""},
   author : {""}] :
     b.category = CatStr(2) <=> b.title = TitleX}

ListUpdateBodies ==
  [title : {TitleAb},
   content : {Text(2)},
   category : {CatStr(1)},
   tags : {<<>>},
   excerpt : {<<>>},
   isPublished : {<<>>, StrTrue},
   file : {""},
   author : {""}]

ListIdParams == {IdStr(i) : i \in 1..MaxListPosts}

Queries ==
  { [EmptyQuery EXCEPT !.page = StrOf(2), !.limit = StrOf(1)],
    [EmptyQuery EXCEPT !.category = CatStr(1), !.sort = SortOldest],
    [EmptyQuery EXCEPT !.search = <<"B">>, !.limit = <<"-", "2">>] }

SearchTerms == {<<>>, <<"B">>, <<".">>, <<"(">>}

ListCreatePost ==
  /\ nextId <= MaxListPosts
  /\ \E body \in ListBodies : CreatePost(Owner, body)

ListUpdatePost ==
  \E param \in ListIdParams, body \in ListUpdateBodies : UpdatePost(Owner, param, body)

ListDeletePost == \E param \in ListIdParams : DeletePost(Owner, param)

ListGetPosts == \E query \in Queries : GetPosts(query)

ListSearchPosts == \E q \in SearchTerms : SearchPosts(q)

NextList ==
  \/ ListCreatePost
  \/ ListUpdatePost
  \/ ListDeletePost
  \/ ListGetPosts
  \/ ListSearchPosts

SpecList == Init /\ [][NextList]_vars

(***************************************************************************)
(* SpecExcerpt: posts whose content and excerpt straddle the 200 limit     *)
(***************************************************************************)
ExcerptBodies ==
  [title : {TitleAb},
   content : {<<>>, Text(2), Text(ExcerptMax - 3), Text(ExcerptMax - 2),
              Text(ExcerptLen + 1)},
   category : {CatStr(1)},
   tags : {<<>>},
   excerpt : {<<>>, <<"s">>, Rep(ExcerptMax, "e"), Rep(ExcerptMax + 1, "e")},
   isPublished : {StrTrue},
   file : {""},
   author : {""}]

ExcerptCreatePost ==
  /\ nextId <= MaxPosts
  /\ \E body \in ExcerptBodies : CreatePost(Owner, body)

ExcerptUpdatePost ==
  \E param \in IdParams, body \in ExcerptBodies : UpdatePost(Owner, param, body)

ExcerptDeletePost == \E param \in IdParams : DeletePost(Owner, param)

NextExcerpt ==
  \/ ExcerptCreatePost
  \/ ExcerptUpdatePost
  \/ ExcerptDeletePost

SpecExcerpt == Init /\ [][NextExcerpt]_vars

(***************************************************************************)
(* SpecInput: request bodies with missing fields, malformed categories and *)
(* tag strings with blanks, empty pieces and duplicates                    *)
(***************************************************************************)
CategoryWord == <<"n", "e", "w", "s">>

CategoryShort == Rep(ObjectIdLen - 1, "a")

TagsEmptyPiece == <<"x", ",", ",", "y">>

TagsDuplicate == <<" ", "x", " ", ",", "x">>

TagsBlank == <<" ">>

StrTrueUpper == <<"T", "R", "U", "E">>

InputBodies ==
  {b \in [title : {<<>>, TitleAb},
          content : {<<>>, Text(2)},
          category : {<<>>, CategoryWord, CategoryShort, CatStr(1)},
          tags : {<<>>, TagsXY, TagsEmptyPiece, TagsDuplicate, TagsBlank},
          excerpt : {<<>>},
          isPublished : {<<>>, StrTrue, StrTrueUpper},
          file : {""},
   author : {""}] :
     (b.tags # <<>> \/ b.isPublished # StrTrue) =>
       (b.title # <<>> /\ b.content # <<>> /\ b.category = CatStr(1))}

InputCreatePost ==
  /\ nextId <= MaxPosts
  /\ \E body \in InputBodies : CreatePost(Owner, body)

InputUpdatePost ==
  \E param \in IdParams, body \in InputBodies : UpdatePost(Owner, param, body)

InputDeletePost == \E param \in IdParams : DeletePost(Owner, param)

NextInput ==
  \/ InputCreatePost
  \/ InputUpdatePost
  \/ InputDeletePost

SpecInput == Init /\ [][NextInput]_vars

(***************************************************************************)
(* SpecComment: comments by two users on the owner's posts, through both   *)
(* controllers, with empty and blank contents and missing posts            *)
(***************************************************************************)
CommentText == <<"c">>

CommentBlank == <<" ", " ">>

Commenter == CHOOSE u \in Users : u.id = "u2"

CommentPostBodies == {b \in Bodies : b.title = TitleAb /\ b.isPublished = StrTrue}

CommentInputs ==
  {x \in [actor : {Owner, Commenter}, content : {<<>>, CommentBlank, CommentText}] :
     x.actor # Owner => x.content = CommentText}

CommentsBelowCap(param) ==
  \A i \in FindById(param) : Len(posts[i].comments) < MaxComments

CommentCreatePost ==
  /\ nextId <= MaxPosts
  /\ \E body \in CommentPostBodies : CreatePost(Owner, body)

CommentDeletePost == \E param \in IdParams : DeletePost(Owner, param)

CommentAddEmbedded ==
  \E x \in CommentInputs, param \in MutateParams :
    /\ CommentsBelowCap(param)
    /\ AddComment(x.actor, param, x.content)

CommentAddStandalone ==
  /\ Len(commentDocs) < MaxCommentDocs
  /\ \E content \in {<<>>, CommentBlank}, param \in MutateParams :
       CommentAddComment(Commenter, param, content)

NextComment ==
  \/ CommentCreatePost
  \/ CommentDeletePost
  \/ CommentAddEmbedded
  \/ CommentAddStandalone

SpecComment == Init /\ [][NextComment]_vars

(***************************************************************************)
(* SpecLife: drafts and published posts of one owner, updated by every     *)
(* user, read, listed, searched and commented                              *)
(***************************************************************************)
LifeBodies == {b \in Bodies : b.title = TitleAb}

LifeUpdateBodies == {b \in Bodies : b.title # TitleHex}

\* a body may name an author of its own
LifeCreateBodies == {[b EXCEPT !.author = a] : b \in LifeBodies, a \in {"", "adm"}}

LifeCreatePost ==
  /\ nextId <= MaxPosts
  /\ \E actor \in {Owner, Commenter}, body \in LifeCreateBodies : CreatePost(actor, body)

LifeUpdatePost ==
  \E actor \in Users, param \in IdParams, body \in LifeUpdateBodies :
    UpdatePost(actor, param, body)

LifeDeletePost == \E param \in IdParams : DeletePost(Owner, param)

LifeGetPost ==
  \E param \in IdParams : ViewsBelowCap(param) /\ GetPost(param)

LifeGetPosts == GetPosts(EmptyQuery)

LifeSearchPosts == SearchPosts(<<"B">>)

LifeAddComment ==
  \E param \in IdParams :
    CommentsBelowCap(param) /\ AddComment(Commenter, param, CommentText)

NextLife ==
  \/ LifeCreatePost
  \/ LifeUpdatePost
  \/ LifeDeletePost
  \/ LifeGetPost
  \/ LifeGetPosts
  \/ LifeSearchPosts
  \/ LifeAddComment

SpecLife == Init /\ [][NextLife]_vars

(***************************************************************************)
(* The handlers as interleaved steps.  A handler runs from one await to    *)
(* the next without interruption; between two awaits the steps of other    *)
(* requests may run.  calls holds the requests begun so far, each with its *)
(* position, the document it has read, and its outcome: sent counts the    *)
(* res.json calls, forwarded the next(error) calls, wrote whether one of   *)
(* its store operations changed the store.                                 *)
(***************************************************************************)
Call(op, actor, param, body) ==
  [op |-> op, actor |-> actor, param |-> param, body |-> body,
   pc |-> "find", post |-> NoPost,
   sent |-> 0, forwarded |-> 0, status |-> 0, data |-> NoPost, items |-> <<>>,
   wrote |-> FALSE]

Begin(op, actor, param, body) ==
  /\ Len(calls) < MaxCalls
  /\ calls' = Append(calls, Call(op, actor, param, body))
  /\ UNCHANGED <<posts, nextId, now, req, res, commentDocs, files, categories, client>>

\* res.status(status).json(...) without the return
RespondAndGoOn(call, status, data, items) ==
  [call EXCEPT !.sent = @ + 1, !.status = status, !.data = data, !.items = items]

\* return res.status(status).json(...)
Respond(call, status, data, items) ==
  [call EXCEPT !.pc = "done", !.sent = @ + 1, !.status = status,
               !.data = data, !.items = items]

\* catch (error) { next(error) }
Forward(call) ==
  [call EXCEPT !.pc = "done", !.forwarded = @ + 1, !.status = 500]

Await(call, pc, post) ==
  [call EXCEPT !.pc = pc, !.post = post]

Issued(call, wrote) == [call EXCEPT !.wrote = wrote]

At(p, op, pc) ==
  p \in DOMAIN calls /\ calls[p].op = op /\ calls[p].pc = pc

Reads(p, call) ==
  /\ calls' = [calls EXCEPT ![p] = call]
  /\ UNCHANGED <<posts, nextId, now, req, res, commentDocs, files, categories, client>>

Writes(p, call, store) ==
  /\ calls' = [calls EXCEPT ![p] = call]
  /\ posts' = store
  /\ UNCHANGED <<nextId, now, req, res, commentDocs, files, categories, client>>

\* The saves of post.incrementViewCount() and post.addComment(): each is one
\* atomic single-document update of the stored post.
SaveViewCount(store, i) == [store EXCEPT ![i] = incrementViewCount(@)]

SaveComment(store, i, userId, content) ==
  [store EXCEPT ![i] = addComment(@, userId, content)]

\* getPost: the lookup, then post.incrementViewCount()
GetPostFind(p) ==
  /\ At(p, "getPost", "find")
  /\ LET call == calls[p]
         found == GetPostLookup(call.param)
     IN  IF found = {}
         THEN Reads(p, Respond(Issued(call, FALSE), 404, NoPost, <<>>))
         ELSE Reads(p, Await(call, "write", posts[CHOOSE j \in found : TRUE]))

\* The answer carries the document the handler holds.
GetPostIncrementSkipped(p) ==
  /\ At(p, "getPost", "write")
  /\ LET call == calls[p]
     IN  Reads(p, Respond(Issued(call, FALSE), 200, incrementViewCount(call.post), <<>>))

GetPostIncrement(p) ==
  /\ At(p, "getPost", "write")
  /\ LET call == calls[p]
         i == call.post.id
         post == incrementViewCount(call.post)
     IN  IF i \in DOMAIN posts
         THEN Writes(p, Respond(Issued(call, TRUE), 200, post, <<>>),
                     SaveViewCount(posts, i))
         ELSE Reads(p, Respond(Issued(call, FALSE), 200, post, <<>>))

\* addComment of the post controller: the content test and the lookup, then
\* post.addComment, then the second lookup
AddCommentFind(p) ==
  /\ At(p, "addComment", "find")
  /\ LET call == calls[p]
         found == FindById(call.param)
     IN  IF call.body.content = <<>>
         THEN Reads(p, Respond(call, 400, NoPost, <<>>))
         ELSE IF ~IsValidObjectId(call.param)
         THEN Reads(p, Forward(Issued(call, FALSE)))
         ELSE IF found = {}
         THEN Reads(p, Respond(Issued(call, FALSE), 404, NoPost, <<>>))
         ELSE Reads(p, Await(call, "write", posts[CHOOSE j \in found : TRUE]))

AddCommentAppend(p) ==
  /\ At(p, "addComment", "write")
  /\ LET call == calls[p]
         i == call.post.id
     IN  IF i \in DOMAIN posts
         THEN Writes(p, [Issued(call, TRUE) EXCEPT !.pc = "refetch"],
                     SaveComment(posts, i, call.actor.id, call.body.content))
         ELSE Reads(p, [Issued(call, FALSE) EXCEPT !.pc = "refetch"])

\* updatedPost.comments throws when the post has been deleted meanwhile
AddCommentRefetch(p) ==
  /\ At(p, "addComment", "refetch")
  /\ LET call == calls[p]
         found == FindById(call.param)
     IN  IF found = {}
         THEN Reads(p, Forward(Issued(call, call.wrote)))
         ELSE Reads(p, Respond(Issued(call, call.wrote), 201, NoPost,
                               posts[CHOOSE j \in found : TRUE].comments))

\* updatePost: validation, lookup and owner test, then findByIdAndUpdate
UpdatePostFind(p) ==
  /\ At(p, "updatePost", "find")
  /\ LET call == calls[p]
         found == FindById(call.param)
     IN  IF postValidation(call.body) # {}
         THEN Reads(p, Respond(call, 400, NoPost, <<>>))
         ELSE IF ~IsValidObjectId(call.param)
         THEN Reads(p, Forward(Issued(call, FALSE)))
         ELSE IF found = {}
         THEN Reads(p, Respond(Issued(call, FALSE), 404, NoPost, <<>>))
         ELSE IF ~Authorized(posts[CHOOSE j \in found : TRUE], call.actor)
         THEN Reads(p, Respond(Issued(call, FALSE), 403, NoPost, <<>>))
         ELSE Reads(p, Await(call, "write", posts[CHOOSE j \in found : TRUE]))

\* findByIdAndUpdate resolves to null when no document has the identifier;
\* the handler answers with whatever it resolved to.
UpdatePostWrite(p) ==
  /\ At(p, "updatePost", "write")
  /\ LET call == calls[p]
         i == call.post.id
         updateData == UpdateData(call.post, call.body)
     IN  IF RunValidators(updateData) # {}
         THEN Reads(p, Forward(Issued(call, FALSE)))
         ELSE IF i \notin DOMAIN posts
         THEN Reads(p, Respond(Issued(call, FALSE), 200, NoPost, <<>>))
         ELSE LET post == FindByIdAndUpdate(posts[i], updateData)
              IN  Writes(p, Respond(Issued(call, TRUE), 200, post, <<>>),
                         [posts EXCEPT ![i] = post])

\* deletePost: lookup and owner test, then findByIdAndDelete
DeletePostFind(p) ==
  /\ At(p, "deletePost", "find")
  /\ LET call == calls[p]
         found == FindById(call.param)
     IN  IF ~IsValidObjectId(call.param)
         THEN Reads(p, Forward(Issued(call, FALSE)))
         ELSE IF found = {}
         THEN Reads(p, Respond(Issued(call, FALSE), 404, NoPost, <<>>))
         ELSE IF ~Authorized(posts[CHOOSE j \in found : TRUE], call.actor)
         THEN Reads(p, Respond(Issued(call, FALSE), 403, NoPost, <<>>))
         ELSE Reads(p, Await(call, "write", posts[CHOOSE j \in found : TRUE]))

DeletePostDelete(p) ==
  /\ At(p, "deletePost", "write")
  /\ LET call == calls[p]
         i == call.post.id
     IN  Writes(p, Respond(Issued(call, i \in DOMAIN posts), 200, NoPost, <<>>),
                [j \in DOMAIN posts \ {i} |-> posts[j]])

\* addComment of the comment controller: the lookup, then Comment.create
CommentAddCommentFind(p) ==
  /\ At(p, "comment.addComment", "find")
  /\ LET call == calls[p]
         found == FindById(call.param)
     IN  IF ~IsValidObjectId(call.param)
         THEN Reads(p, Forward(Issued(call, FALSE)))
         ELSE IF found = {}
         THEN Reads(p, Respond(Issued(call, FALSE), 404, NoPost, <<>>))
         ELSE Reads(p, Await(call, "write", posts[CHOOSE j \in found : TRUE]))

CommentAddCommentCreate(p) ==
  /\ At(p, "comment.addComment", "write")
  /\ LET call == calls[p]
         comment == [content |-> call.body.content, author |-> call.actor.id,
                     post |-> call.param]
     IN  IF CommentSchemaErrors(comment) # {}
         THEN Reads(p, Forward(Issued(call, FALSE)))
         ELSE /\ calls' = [calls EXCEPT
                             ![p] = Respond(Issued(call, TRUE), 201, NoPost, <<comment>>)]
              /\ commentDocs' = Append(commentDocs, comment)
              /\ UNCHANGED <<posts, nextId, now, req, res, files, categories, client>>

\* getPosts and searchPosts read the store and answer
GetPostsAnswer(p) ==
  /\ At(p, "getPosts", "find")
  /\ LET call == calls[p]
         r == GetPostsResponse(EmptyQuery)
     IN  IF r.status = 500
         THEN Reads(p, Forward(call))
         ELSE Reads(p, Respond(call, r.status, NoPost, r.items))

SearchPostsAnswer(p) ==
  /\ At(p, "searchPosts", "find")
  /\ LET call == calls[p]
         r == SearchPostsResponse(call.param)
     IN  IF r.status = 500
         THEN Reads(p, Forward(call))
         ELSE Reads(p, Respond(call, r.status, NoPost, r.items))

(***************************************************************************)
(* SpecConc: requests on the first post begun at any time and interleaved  *)
(* step by step                                                            *)
(***************************************************************************)
ConcTarget == IdStr(1)

ConcComments == {x \in CommentInputs : x.content # CommentBlank}

ConcUpdates ==
  {x \in [actor : {Owner, Commenter},
          body : {b \in LifeUpdateBodies : b.isPublished = <<>>}] :
     x.actor # Owner => x.body.title # <<>>}

ConcCreatePost ==
  /\ nextId <= MaxPosts
  /\ posts = <<>>
  /\ \E body \in CommentPostBodies : CreatePost(Owner, body)

ConcBeginGetPost == Begin("getPost", NoUser, ConcTarget, EmptyBody)

ConcBeginAddComment ==
  \E x \in ConcComments : Begin("addComment", x.actor, ConcTarget, CommentBody(x.content))

ConcBeginUpdatePost ==
  \E x \in ConcUpdates : Begin("updatePost", x.actor, ConcTarget, x.body)

ConcBeginDeletePost ==
  \E actor \in {Owner, Commenter} : Begin("deletePost", actor, ConcTarget, EmptyBody)

ConcBeginCommentAddComment ==
  \E content \in {<<>>, CommentText} :
    Begin("comment.addComment", Commenter, ConcTarget, CommentBody(content))

ConcBeginGetPosts == Begin("getPosts", NoUser, <<>>, EmptyBody)

ConcBeginSearchPosts ==
  \E q \in {<<>>, <<"B">>} : Begin("searchPosts", NoUser, q, EmptyBody)

NextConc ==
  \/ ConcCreatePost
  \/ ConcBeginGetPost
  \/ ConcBeginAddComment
  \/ ConcBeginUpdatePost
  \/ ConcBeginDeletePost
  \/ ConcBeginCommentAddComment
  \/ ConcBeginGetPosts
  \/ ConcBeginSearchPosts
  \/ \E p \in DOMAIN calls : GetPostFind(p)
  \/ \E p \in DOMAIN calls : GetPostIncrement(p)
  \/ \E p \in DOMAIN calls : AddCommentFind(p)
  \/ \E p \in DOMAIN calls : AddCommentAppend(p)
  \/ \E p \in DOMAIN calls : AddCommentRefetch(p)
  \/ \E p \in DOMAIN calls : UpdatePostFind(p)
  \/ \E p \in DOMAIN calls : UpdatePostWrite(p)
  \/ \E p \in DOMAIN calls : DeletePostFind(p)
  \/ \E p \in DOMAIN calls : DeletePostDelete(p)
  \/ \E p \in DOMAIN calls : CommentAddCommentFind(p)
  \/ \E p \in DOMAIN calls : CommentAddCommentCreate(p)
  \/ \E p \in DOMAIN calls : GetPostsAnswer(p)
  \/ \E p \in DOMAIN calls : SearchPostsAnswer(p)

SpecConc == Init /\ [][NextConc]_vars

(***************************************************************************)
(* SpecImage: posts with and without a featured image, retitled, read and  *)
(* commented, then updated with and without a new file                     *)
(***************************************************************************)
FileOld == "old.png"

FileNew == "new.png"

ImageCreateBodies ==
  {[b EXCEPT !.file = f] : b \in CommentPostBodies, f \in {"", FileOld}}

ImageUpdateBodies ==
  {[b EXCEPT !.title = t, !.file = f] :
     b \in CommentPostBodies, t \in {TitleAb, TitleBc}, f \in {"", FileNew}}

ImageCreatePost ==
  /\ nextId <= MaxPosts
  /\ \E body \in ImageCreateBodies : CreatePost(Owner, body)

ImageUpdatePost ==
  \E param \in IdParams, body \in ImageUpdateBodies : UpdatePost(Owner, param, body)

ImageDeletePost == \E param \in IdParams : DeletePost(Owner, param)

ImageGetPost ==
  \E param \in IdParams : ViewsBelowCap(param) /\ GetPost(param)

ImageAddComment ==
  \E param \in IdParams :
    CommentsBelowCap(param) /\ AddComment(Commenter, param, CommentText)

NextImage ==
  \/ ImageCreatePost
  \/ ImageUpdatePost
  \/ ImageDeletePost
  \/ ImageGetPost
  \/ ImageAddComment

SpecImage == Init /\ [][NextImage]_vars

(***************************************************************************)
(* SpecRace: the owner's updates of one post, with two contents and never  *)
(* an excerpt, interleaved step by step                                    *)
(***************************************************************************)
RaceBodies ==
  {[b EXCEPT !.content = c] : b \in CommentPostBodies, c \in {Text(2), Text(3)}}

RaceCreatePost ==
  /\ nextId <= MaxPosts
  /\ posts = <<>>
  /\ \E body \in RaceBodies : CreatePost(Owner, body)

RaceBeginUpdatePost ==
  \E body \in RaceBodies : Begin("updatePost", Owner, IdStr(nextId - 1), body)

RaceBeginDeletePost == Begin("deletePost", Owner, IdStr(nextId - 1), EmptyBody)

NextRace ==
  \/ RaceCreatePost
  \/ RaceBeginUpdatePost
  \/ RaceBeginDeletePost
  \/ \E p \in DOMAIN calls : UpdatePostFind(p)
  \/ \E p \in DOMAIN calls : UpdatePostWrite(p)
  \/ \E p \in DOMAIN calls : DeletePostFind(p)
  \/ \E p \in DOMAIN calls : DeletePostDelete(p)

SpecRace == Init /\ [][NextRace]_vars

(***************************************************************************)
(* SpecThread: comments added through either controller, then the post is  *)
(* read                                                                    *)
(***************************************************************************)
ThreadCreatePost ==
  /\ nextId <= MaxPosts
  /\ \E body \in CommentPostBodies : CreatePost(Owner, body)

ThreadDeletePost == \E param \in IdParams : DeletePost(Owner, param)

ThreadAddEmbedded ==
  \E actor \in {Owner, Commenter}, param \in IdParams :
    CommentsBelowCap(param) /\ AddComment(actor, param, CommentText)

ThreadAddStandalone ==
  /\ Len(commentDocs) < MaxCommentDocs
  /\ \E param \in IdParams : CommentAddComment(Commenter, param, CommentText)

ThreadGetPost ==
  \E param \in IdParams : ViewsBelowCap(param) /\ GetPost(param)

NextThread ==
  \/ ThreadCreatePost
  \/ ThreadDeletePost
  \/ ThreadAddEmbedded
  \/ ThreadAddStandalone
  \/ ThreadGetPost

SpecThread == Init /\ [][NextThread]_vars

(***************************************************************************)
(* The edit page (client/src/pages/editpost.jsx): fetchPost fills the form *)
(* from the answer of getPost, handleSubmit sends the form to updatePost.  *)
(***************************************************************************)
RECURSIVE Join(_, _)
Join(pieces, sep) ==
  IF pieces = <<>> THEN <<>>
  ELSE IF Len(pieces) = 1 THEN pieces[1]
  ELSE pieces[1] \o sep \o Join(Tail(pieces), sep)

\* post.isPublished || true
OrTrue(flag) == IF flag THEN flag ELSE TRUE

fetchPost(post) ==
  [title |-> post.title,
   content |-> post.content,
   category |-> post.category,
   tags |-> Join(post.tags, <<",", " ">>),
   excerpt |-> post.excerpt,
   isPublished |-> OrTrue(post.isPublished),
   featuredImage |-> ""]

validateForm(formData) ==
  (IF Trim(formData.title) = <<>> \/ Len(formData.title) > TitleMax
   THEN {"title"} ELSE {})
  \cup (IF Trim(formData.content) = <<>> THEN {"content"} ELSE {})
  \cup (IF formData.category = <<>> THEN {"category"} ELSE {})
  \cup (IF Len(formData.excerpt) > ExcerptMax THEN {"excerpt"} ELSE {})

\* Boolean.prototype.toString
BoolToString(flag) == IF flag THEN StrTrue ELSE <<"f", "a", "l", "s", "e">>

handleSubmit(formData) ==
  [title |-> formData.title,
   content |-> formData.content,
   category |-> formData.category,
   tags |-> formData.tags,
   excerpt |-> formData.excerpt,
   isPublished |-> BoolToString(formData.isPublished),
   file |-> formData.featuredImage,
   author |-> ""]

(***************************************************************************)
(* SpecEdit: the owner opens drafts and published posts in the edit page   *)
(* and submits the form as it was filled                                   *)
(***************************************************************************)
EditCreateBodies ==
  {[b EXCEPT !.tags = t] : b \in LifeBodies, t \in {<<>>, TagsXY}}

EditCreatePost ==
  /\ nextId <= MaxPosts
  /\ \E body \in EditCreateBodies : CreatePost(Owner, body)

EditDeletePost == \E param \in IdParams : DeletePost(Owner, param)

EditOpen ==
  \E param \in IdParams : ViewsBelowCap(param) /\ GetPost(param)

EditSubmit ==
  /\ req.op = "getPost"
  /\ res.status = 200
  /\ validateForm(fetchPost(res.post)) = {}
  /\ UpdatePost(Owner, req.param, handleSubmit(fetchPost(res.post)))

NextEdit ==
  \/ EditCreatePost
  \/ EditDeletePost
  \/ EditOpen
  \/ EditSubmit

SpecEdit == Init /\ [][NextEdit]_vars

(***************************************************************************)
(* The registration page (Register, unnamed/part_007): the password        *)
(* strength checker and the effect that keeps the meter's state            *)
(***************************************************************************)
\* /[A-Z]/, /[a-z]/, /[0-9]/
UpperCase ==
  {"A", "B", "C", "D", "E", "F", "G", "H", "I", "J", "K", "L", "M",
   "N", "O", "P", "Q", "R", "S", "T", "U", "V", "W", "X", "Y", "Z"}

LowerCase ==
  {"a", "b", "c", "d", "e", "f", "g", "h", "i", "j", "k", "l", "m",
   "n", "o", "p", "q", "r", "s", "t", "u", "v", "w", "x", "y", "z"}

DigitChars == {Digits[i] : i \in DOMAIN Digits}

\* regex.test(password) for a one-character class
Test(class, password) == \E i \in DOMAIN password : password[i] \in class

\* /[^A-Za-z0-9]/.test(password)
TestSpecial(password) ==
  \E i \in DOMAIN password :
    password[i] \notin (UpperCase \cup LowerCase \cup DigitChars)

strengthLevels ==
  <<[label |-> "Very Weak", color |-> "bg-red-500", text |-> "text-red-600"],
    [label |-> "Weak", color |-> "bg-orange-500", text |-> "text-orange-600"],
    [label |-> "Fair", color |-> "bg-yellow-500", text |-> "text-yellow-600"],
    [label |-> "Good", color |-> "bg-blue-500", text |-> "text-blue-600"],
    [label |-> "Strong", color |-> "bg-green-500", text |-> "text-green-600"]>>

\* the value of an array element that does not exist
undefined == [label |-> "undefined", color |-> "undefined", text |-> "undefined"]

\* array[index] with indices from 0
ElementAt(array, index) ==
  IF index + 1 \in DOMAIN array THEN array[index + 1] ELSE undefined

checkPasswordStrength(password) ==
  LET long == Len(password) >= PasswordMin
      upper == Test(UpperCase, password)
      lower == Test(LowerCase, password)
      digit == Test(DigitChars, password)
      special == TestSpecial(password)
      score == (IF long THEN 1 ELSE 0) + (IF upper THEN 1 ELSE 0)
               + (IF lower THEN 1 ELSE 0) + (IF digit THEN 1 ELSE 0)
               + (IF special THEN 1 ELSE 0)
      feedback == (IF long THEN <<>> ELSE <<"At least 8 characters">>)
                  \o (IF upper THEN <<>> ELSE <<"One uppercase letter">>)
                  \o (IF lower THEN <<>> ELSE <<"One lowercase letter">>)
                  \o (IF digit THEN <<>> ELSE <<"One number">>)
                  \o (IF special THEN <<>> ELSE <<"One special character">>)
  IN [score |-> score,
      level |-> ElementAt(strengthLevels, score),
      feedback |-> IF Len(feedback) > 0 THEN feedback
                   ELSE <<"Strong password!">>]

\* useState({ score: 0, level: {}, feedback: [] })
NoStrength ==
  [score |-> 0, level |-> [label |-> "", color |-> "", text |-> ""],
   feedback |-> <<>>]

\* the effect on formData.password
StrengthEffect(password) ==
  IF password # <<>> THEN checkPasswordStrength(password) ELSE NoStrength

(***************************************************************************)
(* SpecRegister: passwords typed into the registration form                *)
(***************************************************************************)
Passwords ==
  {Rep(a, "A") \o Rep(b, "a") \o Rep(c, "1") \o Rep(d, "!") :
     <<a, b, c, d>> \in {q \in (0..MaxPassword) \X (0..MaxPassword)
                                \X (0..MaxPassword) \X (0..MaxPassword) :
                           q[1] + q[2] + q[3] + q[4] <= MaxPassword}}

RegisterMount ==
  /\ client = NoPage
  /\ client' = [name |-> "register", password |-> <<>>,
                passwordStrength |-> NoStrength]
  /\ UNCHANGED <<posts, nextId, now, req, res, commentDocs, calls, files,
                 categories>>

RegisterHandleChange ==
  /\ client.name = "register"
  /\ \E password \in Passwords :
       client' = [client EXCEPT !.password = password,
                                !.passwordStrength = StrengthEffect(password)]
  /\ UNCHANGED <<posts, nextId, now, req, res, commentDocs, calls, files,
                 categories>>

RegisterUnmount ==
  /\ client.name = "register"
  /\ client' = NoPage
  /\ UNCHANGED <<posts, nextId, now, req, res, commentDocs, calls, files,
                 categories>>

NextRegister ==
  \/ RegisterMount
  \/ RegisterHandleChange
  \/ RegisterUnmount

SpecRegister == Init /\ [][NextRegister]_vars

(***************************************************************************)
(* The create-post page (client/src/pages/createpost.jsx): the form, the   *)
(* auto-save effect with its timer, the draft in localStorage and          *)
(* handleSubmit.  The browser state is the record client: the page shown,  *)
(* the form, autoSaveTimerRef (0 for null), the pending timers, the        *)
(* 'post-draft' entry of localStorage (a set with at most one draft), the  *)
(* time since the last form change and whether a submission is awaited.    *)
(***************************************************************************)
InitialFormData == [title |-> <<>>, content |-> <<>>, category |-> <<>>]

\* the fields autoSaveDraft puts into the draft
DraftData(formData) ==
  [title |-> formData.title, content |-> formData.content,
   category |-> formData.category]

\* an identifier no pending timer and no reference holds
FreshTimer(c) ==
  CHOOSE id \in 1..(Cardinality(c.timers) + 2) :
    id # c.autoSaveTimerRef /\ \A t \in c.timers : t.id # id

clearTimeout(timers, id) == {t \in timers : t.id # id}

\* a cleanup that leaves the timer running
AutoSaveCleanupKeepsTimer(c) == c

\* the function the auto-save effect returns
AutoSaveCleanup(c) ==
  IF c.autoSaveTimerRef # 0
  THEN [c EXCEPT !.timers = clearTimeout(c.timers, c.autoSaveTimerRef)]
  ELSE c

\* the body of the auto-save effect, run with the form of the new render
AutoSaveEffect(c) ==
  IF c.formData.title # <<>> \/ c.formData.content # <<>>
  THEN LET id == FreshTimer(c)
       IN  [c EXCEPT !.autoSaveTimerRef = id,
                     !.timers = @ \cup {[id |-> id, remaining |-> AutoSaveDelay,
                                         formData |-> c.formData]}]
  ELSE c

\* setFormData and the render that follows it: the previous effect is cleaned
\* up and the effect runs again
setFormData(c, formData) ==
  AutoSaveEffect([AutoSaveCleanup(c) EXCEPT !.formData = formData,
                                            !.sinceChange = 0])

loadDraft(c) ==
  IF c.storage # {}
  THEN LET parsedDraft == CHOOSE d \in c.storage : TRUE
       IN  setFormData(c, [title |-> parsedDraft.title,
                           content |-> parsedDraft.content,
                           category |-> parsedDraft.category])
  ELSE c

autoSaveDraft(c, formData) == [c EXCEPT !.storage = {DraftData(formData)}]

clearDraft(c) == [c EXCEPT !.storage = {}]

\* leaving the page: the effect's cleanup runs and the component's state goes
Unmount(c) ==
  [AutoSaveCleanup(c) EXCEPT !.name = "home", !.formData = InitialFormData,
                             !.autoSaveTimerRef = 0, !.sinceChange = 0]

CreateValidateForm(formData) ==
  (IF Trim(formData.title) = <<>> \/ Len(formData.title) > TitleMax
   THEN {"title"} ELSE {})
  \cup (IF Trim(formData.content) = <<>> THEN {"content"} ELSE {})
  \cup (IF formData.category = <<>> THEN {"category"} ELSE {})

CreateFormBody(formData) ==
  [EmptyBody EXCEPT !.title = formData.title, !.content = formData.content,
                    !.category = formData.category,
                    !.isPublished = BoolToString(TRUE)]

(***************************************************************************)
(* SpecDraft: one browser on the create-post page, time in steps of        *)
(* TickMs, and the server's createPost behind handleSubmit                 *)
(***************************************************************************)
\* the time one step of the clock stands for
TickMs == AutoSaveDelay \div DelaySteps

FormFields == {"title", "content", "category"}

FormValues(field) ==
  IF field = "title" THEN {<<>>, TitleAb}
  ELSE IF field = "content" THEN {<<>>, Text(2)}
  ELSE {<<>>, CatStr(1)}

ServerFrame == UNCHANGED <<posts, nextId, now, req, res, commentDocs, calls,
                           files, categories>>

DraftMount ==
  /\ client.name \in {"", "home"}
  /\ LET shown == IF client.name = ""
                  THEN [name |-> "create", formData |-> InitialFormData,
                        autoSaveTimerRef |-> 0, timers |-> {}, storage |-> {},
                        sinceChange |-> 0, awaiting |-> FALSE]
                  ELSE [client EXCEPT !.name = "create"]
     IN  client' = loadDraft(AutoSaveEffect(shown))
  /\ ServerFrame

DraftHandleChange ==
  /\ client.name = "create"
  /\ \E field \in FormFields : \E value \in FormValues(field) :
       /\ value # client.formData[field]
       /\ client' = setFormData(client, [client.formData EXCEPT ![field] = value])
  /\ ServerFrame

DraftTick ==
  /\ client.name \in {"create", "home"}
  /\ \A t \in client.timers : t.remaining > 0
  /\ client' = [client EXCEPT
       !.timers = {[t EXCEPT !.remaining = @ - TickMs] : t \in @},
       !.sinceChange = IF client.name = "create" /\ @ <= AutoSaveDelay
                       THEN @ + TickMs ELSE @]
  /\ ServerFrame

DraftTimeout ==
  /\ client.name \in {"create", "home"}
  /\ \E t \in client.timers :
       /\ t.remaining = 0
       /\ client' = autoSaveDraft([client EXCEPT !.timers = @ \ {t}], t.formData)
  /\ ServerFrame

DraftUnmount ==
  /\ client.name = "create"
  /\ client' = Unmount(client)
  /\ ServerFrame

DraftHandleSubmit ==
  /\ client.name = "create"
  /\ ~client.awaiting
  /\ CreateValidateForm(client.formData) = {}
  /\ client' = [client EXCEPT !.awaiting = TRUE]
  /\ req' = Request("createPost", Owner, <<>>, CreateFormBody(client.formData),
                    EmptyQuery)
  /\ res' = Answer(0)
  /\ UNCHANGED <<posts, nextId, now, commentDocs, calls, files, categories>>

DraftServe ==
  /\ client.name \in {"create", "home"}
  /\ client.awaiting
  /\ req.op = "createPost"
  /\ res.status = 0
  /\ nextId <= MaxPosts
  /\ CreatePost(req.actor, req.body)

\* callApi (hooks/useAPi.js) resolves when the server answered with success
\* and rejects otherwise, also when no answer came
callApiResolves(status) == status = 201

\* await callApi(...) resolved: clearDraft(), navigate('/')
DraftResolve ==
  /\ client.name \in {"create", "home"}
  /\ client.awaiting
  /\ callApiResolves(res.status)
  /\ client' = [Unmount(clearDraft(client)) EXCEPT !.awaiting = FALSE]
  /\ ServerFrame

\* await callApi(...) rejected: the catch block logs the error
DraftReject ==
  /\ client.name \in {"create", "home"}
  /\ client.awaiting
  /\ ~callApiResolves(res.status)
  /\ client' = [client EXCEPT !.awaiting = FALSE]
  /\ ServerFrame

NextDraft ==
  \/ DraftMount
  \/ DraftHandleChange
  \/ DraftTick
  \/ DraftTimeout
  \/ DraftUnmount
  \/ DraftHandleSubmit
  \/ DraftServe
  \/ DraftResolve
  \/ DraftReject

SpecDraft == Init /\ [][NextDraft]_vars

(***************************************************************************)
(* Route pipelines (routes of part_000, part_001, part_002): the stages a  *)
(* mutating request passes in the order the route lists them.  The         *)
(* request in flight is the one element of calls: its route, its token,    *)
(* its parameters and the index of the stage it stands at.  The auth       *)
(* middleware, the upload middleware and the category controller are       *)
(* modelled after the specification.                                       *)
(***************************************************************************)
MutatingRoutes ==
  {"createPost", "updatePost", "deletePost", "addComment",
   "comment.addComment", "createCategory"}

\* a route with the upload ahead of the token check
PipelineUploadFirst(route) ==
  IF route \in {"createPost", "updatePost"}
  THEN <<"upload", "auth", "validate", "handler">>
  ELSE IF route = "createCategory" THEN <<"auth", "validate", "handler">>
  ELSE <<"auth", "handler">>

Pipeline(route) ==
  IF route \in {"createPost", "updatePost"}
  THEN <<"auth", "upload", "validate", "handler">>
  ELSE IF route = "createCategory" THEN <<"auth", "validate", "handler">>
  ELSE <<"auth", "handler">>

Tokens == {"", "bad", "tok-u1"}

\* the users a token verifies to: none for a missing or invalid token
TokenUser(token) ==
  {u \in Users : (token = "tok-u1" /\ u.id = "u1") \/ (token = "tok-u2" /\ u.id = "u2")}

Arrived(route, token, param, body, upload, content, name) ==
  [route |-> route, token |-> token, param |-> param, body |-> body,
   upload |-> upload, content |-> content, name |-> name,
   user |-> NoUser, at |-> 1]

InFlight == calls # <<>>

Stage ==
  IF calls[1].at \in DOMAIN Pipeline(calls[1].route)
  THEN Pipeline(calls[1].route)[calls[1].at] ELSE "done"

Answered ==
  IF InFlight
  THEN Stage = "done" \/ (Stage = "handler" /\ res.status # 0)
  ELSE TRUE

RouteBodies ==
  {[EmptyBody EXCEPT !.title = t, !.content = Text(2), !.category = CatStr(1)] :
     t \in {<<>>, TitleAb}}

RouteArrive ==
  /\ Answered
  /\ \E route \in MutatingRoutes, token \in Tokens,
        body \in RouteBodies, upload \in {"", FileNew},
        name \in {<<>>, <<"n">>} :
       /\ route = "createPost" => nextId <= MaxPosts
       /\ route = "addComment" => CommentsBelowCap(IdStr(1))
       /\ route = "comment.addComment" => Len(commentDocs) < MaxCommentDocs
       /\ route # "createPost" => body.title = TitleAb
       /\ route \notin {"createPost", "updatePost"} => upload = ""
       /\ route # "createCategory" => name = <<>>
       /\ calls' = <<Arrived(route, token, IdStr(1), body, upload,
                             CommentText, name)>>
  /\ req' = Request("init", NoUser, <<>>, EmptyBody, EmptyQuery)
  /\ res' = Answer(0)
  /\ UNCHANGED <<posts, nextId, now, commentDocs, files, categories, client>>

\* middleware/auth: a valid token resolves the user and passes on, anything
\* else is answered 401
auth ==
  /\ InFlight
  /\ Stage = "auth"
  /\ IF TokenUser(calls[1].token) # {}
     THEN /\ calls' = <<[calls[1] EXCEPT
                           !.user = CHOOSE u \in TokenUser(calls[1].token) : TRUE,
                           !.at = @ + 1]>>
          /\ UNCHANGED res
     ELSE /\ calls' = <<[calls[1] EXCEPT !.at = Len(Pipeline(calls[1].route)) + 1]>>
          /\ res' = Answer(401)
  /\ UNCHANGED <<posts, nextId, now, req, commentDocs, files, categories, client>>

\* utils/upload, upload.single('featuredImage'): a file in the request is
\* stored and named in req.file
uploadSingle ==
  /\ InFlight
  /\ Stage = "upload"
  /\ files' = IF calls[1].upload # "" THEN files \cup {calls[1].upload} ELSE files
  /\ calls' = <<[calls[1] EXCEPT !.body = [@ EXCEPT !.file = calls[1].upload],
                                 !.at = @ + 1]>>
  /\ UNCHANGED <<posts, nextId, now, req, res, commentDocs, categories, client>>

\* the express-validator chains record their findings in the request and
\* pass on; the handler reads them
RouteValidate ==
  /\ InFlight
  /\ Stage = "validate"
  /\ calls' = <<[calls[1] EXCEPT !.at = @ + 1]>>
  /\ UNCHANGED <<posts, nextId, now, req, res, commentDocs, files, categories,
                 client>>

AtHandler(route) ==
  InFlight /\ calls[1].route = route /\ Stage = "handler" /\ res.status = 0

RouteCreatePost ==
  AtHandler("createPost") /\ CreatePost(calls[1].user, calls[1].body)

RouteUpdatePost ==
  AtHandler("updatePost")
  /\ UpdatePost(calls[1].user, calls[1].param, calls[1].body)

RouteDeletePost ==
  AtHandler("deletePost") /\ DeletePost(calls[1].user, calls[1].param)

RouteAddComment ==
  AtHandler("addComment")
  /\ AddComment(calls[1].user, calls[1].param, calls[1].content)

RouteCommentAddComment ==
  AtHandler("comment.addComment")
  /\ CommentAddComment(calls[1].user, calls[1].param, calls[1].content)

\* controllers/categorycontroller createCategory: the name is required and
\* unique
createCategory ==
  /\ AtHandler("createCategory")
  /\ req' = Request("createCategory", calls[1].user, <<>>, EmptyBody, EmptyQuery)
  /\ IF calls[1].name = <<>>
     THEN /\ res' = Response(400, NoPost, <<>>, NoPagination, {"name"})
          /\ UNCHANGED categories
     ELSE IF calls[1].name \in categories
     THEN /\ res' = Answer(500)
          /\ UNCHANGED categories
     ELSE /\ categories' = categories \cup {calls[1].name}
          /\ res' = Answer(201)
  /\ UNCHANGED <<posts, nextId, now, commentDocs, calls, files, client>>

NextRoute ==
  \/ RouteArrive
  \/ auth
  \/ uploadSingle
  \/ RouteValidate
  \/ RouteCreatePost
  \/ RouteUpdatePost
  \/ RouteDeletePost
  \/ RouteAddComment
  \/ RouteCommentAddComment
  \/ createCategory

SpecRoute == Init /\ [][NextRoute]_vars

(***************************************************************************)
(* Properties                                                              *)
(***************************************************************************)
OwnerOrAdmin(post, actor) == post.author = actor.id \/ actor.role = "admin"

MutationOf(i) ==
  /\ req'.op \in {"updatePost", "deletePost"}
  /\ i \in DOMAIN posts
  /\ req'.param = IdStr(i)

\* C1 as stated: on an existing post, updatePost and deletePost take effect
\* if and only if the actor is the post's author or an admin, and an actor
\* who is neither always gets 403 with the store unchanged.
C1_AsStated ==
  [][\A i \in DOMAIN posts :
       MutationOf(i) =>
         /\ (res'.status = 200) <=> OwnerOrAdmin(posts[i], req'.actor)
         /\ ~OwnerOrAdmin(posts[i], req'.actor) =>
              (res'.status = 403 /\ posts' = posts)]_vars

\* C1 amended: on an existing post, updatePost and deletePost take effect
\* only if the actor is the post's author or an admin; an actor who is
\* neither never changes the store and gets 403, except that updatePost
\* answers 400 first when the body fails field validation; the author and an
\* admin are never answered 403, and their deletePost removes the post.
C1_OwnerOrAdminOnly ==
  [][\A i \in DOMAIN posts :
       MutationOf(i) =>
         LET allowed == OwnerOrAdmin(posts[i], req'.actor)
             invalid == req'.op = "updatePost" /\ postValidation(req'.body) # {}
         IN  /\ res'.status = 200 => allowed
             /\ ~allowed => /\ posts' = posts
                            /\ res'.status = IF invalid THEN 400 ELSE 403
             /\ allowed => res'.status # 403
             /\ (allowed /\ ~invalid) => res'.status \in {200, 500}
             /\ (allowed /\ req'.op = "deletePost") => i \notin DOMAIN posts']_vars

C1_Witness ==
  /\ req.op \in {"updatePost", "deletePost"}
  /\ res.status = 403
  /\ req.actor.role = "user"
  /\ \E i \in DOMAIN posts : req.param = IdStr(i) /\ posts[i].author # req.actor.id

\* C3: a successful getPost raises the stored view count of the post it
\* returns by exactly 1 and reports the raised value, leaving every other
\* post alone; a post starts at 0 views, so its k-th fetch reports k; a
\* getPost answered NotFound changes no post.
C3_ViewCountByOne ==
  [][/\ req'.op = "getPost" =>
          IF res'.status = 200
          THEN \E i \in DOMAIN posts :
                 /\ res'.post.id = i
                 /\ DOMAIN posts' = DOMAIN posts
                 /\ posts'[i].viewCount = posts[i].viewCount + 1
                 /\ res'.post.viewCount = posts[i].viewCount + 1
                 /\ \A j \in DOMAIN posts \ {i} : posts'[j] = posts[j]
          ELSE res'.status = 404 /\ posts' = posts
     /\ (req'.op = "createPost" /\ res'.status = 201) =>
          (res'.post.viewCount = 0 /\ posts'[res'.post.id].viewCount = 0)]_vars

C3_Witness ==
  /\ req.op = "getPost"
  /\ res.status = 200
  /\ res.post.viewCount = 2
  /\ req.param = res.post.slug

ResolvesById(param) == \E i \in DOMAIN posts : IdStr(i) = param

ResolvesBySlug(param) == \E i \in DOMAIN posts : posts[i].slug = param

\* C4: getPost answers NotFound exactly when its parameter is neither the
\* identifier nor the slug of an existing post, also for a parameter that
\* has the shape of an identifier.
C4_AsStated ==
  [][req'.op = "getPost" =>
       (res'.status = 404 <=>
          (~ResolvesById(req'.param) /\ ~ResolvesBySlug(req'.param)))]_vars

\* C5: for every existing post, the lookup getPost makes for its slug and the
\* one it makes for its identifier resolve to the same record, the post.
C5_AsStated ==
  \A i \in DOMAIN posts :
    GetPostLookup(posts[i].slug) = {i} /\ GetPostLookup(IdStr(i)) = {i}

IsDraft(item) == \E i \in DOMAIN posts : posts[i].id = item.id /\ posts[i].isPublished = FALSE

NoDraftIn(items) == \A k \in 1..Len(items) : ~IsDraft(items[k])

C2Queries ==
  {query \in [page : {<<>>, StrOf(2)},
              limit : {<<>>, StrOf(1)},
              category : {<<>>, CatStr(1)},
              search : {<<>>, <<"B">>, <<".">>},
              sort : {<<>>},
              q : {<<>>}] :
     query.page = <<>> <=> query.limit = <<>>}

C2Terms == {<<"B">>, <<".">>, <<"a", "b">>}

\* C2: whatever createPost, updatePost and deletePost have done, no post whose
\* published flag is false is in the result of getPosts, for any page, limit,
\* category or search filter, or of searchPosts, for any query.
C2_NoDraftListed ==
  /\ \A query \in C2Queries : NoDraftIn(GetPostsResponse(query).items)
  /\ \A q \in C2Terms : NoDraftIn(SearchPostsResponse(q).items)
  /\ req.op \in {"getPosts", "searchPosts"} => NoDraftIn(res.items)

C2_Witness ==
  /\ req.op = "getPosts"
  /\ res.status = 200
  /\ res.items # <<>>
  /\ \E i \in DOMAIN posts :
       /\ posts[i].isPublished = FALSE
       /\ req.query.category = posts[i].category

C6Filters ==
  { EmptyQuery,
    [EmptyQuery EXCEPT !.category = CatStr(1), !.search = <<"b">>] }

C6Query(filter, page, limit) ==
  [filter EXCEPT !.page = NumStr(page), !.limit = NumStr(limit)]

CeilOf(total, limit) ==
  CHOOSE n \in 0..total : n * limit >= total /\ (n = 0 \/ (n - 1) * limit < total)

RECURSIVE ConcatPages(_, _, _)
ConcatPages(answers, page, last) ==
  IF page > last THEN <<>>
  ELSE answers[page].items \o ConcatPages(answers, page + 1, last)

PageAnswers(filter, limit) ==
  [page \in 1..MaxPage |-> GetPostsResponse(C6Query(filter, page, limit))]

\* C6: for page >= 1 and limit >= 1, getPosts skips exactly (page-1)*limit of
\* the matching posts, returns at most limit items and reports
\* pages = ceil(total/limit), total being the number of matching posts; with
\* the store unchanged, pages 1..pages hold every matching post exactly once.
C6_Pagination ==
  \A filter \in C6Filters, limit \in 1..MaxPage :
    \A all \in {SortNewestFirst(ListFilter(filter))},
       answers \in {PageAnswers(filter, limit)} :
      LET total == Len(all)
          pages == CeilOf(total, limit)
      IN  /\ \A page \in 1..MaxPage :
               LET r == answers[page]
                   skipped == (page - 1) * limit
                   rest == IF total > skipped THEN total - skipped ELSE 0
               IN  /\ r.status = 200
                   /\ r.pagination = [page |-> page, limit |-> limit,
                                      total |-> total, pages |-> pages]
                   /\ Len(r.items) = IF rest > limit THEN limit ELSE rest
                   /\ \A k \in 1..Len(r.items) : r.items[k] = all[skipped + k]
          /\ pages <= MaxPage
          /\ ConcatPages(answers, 1, pages) = all

C6_Witness ==
  /\ req.op = "getPosts"
  /\ res.status = 200
  /\ res.pagination.page = 2
  /\ res.pagination.pages = 3
  /\ Len(res.items) = 1

NumericInputs ==
  {<<>>, <<"a", "b">>, StrOf(0), <<"-", "1">>, <<"-", "2">>, StrOf(1), StrOf(2)}

\* C7: for every value of the page and limit parameters (absent, non-numeric,
\* zero, negative or positive) getPosts answers successfully with an
\* effective page >= 1 and limit >= 1, a skip that is not negative and a page
\* count that is not negative.
C7_AsStated ==
  \A page \in NumericInputs, limit \in NumericInputs :
    LET r == GetPostsResponse([EmptyQuery EXCEPT !.page = page, !.limit = limit])
    IN  /\ r.status = 200
        /\ r.pagination.page >= 1
        /\ r.pagination.limit >= 1
        /\ (r.pagination.page - 1) * r.pagination.limit >= 0
        /\ r.pagination.pages >= 0

Sorts == {<<>>, SortNewest, SortOldest}

OrderedAs(sort, items) ==
  \A k \in 1..(Len(items) - 1) :
    IF sort = SortOldest
    THEN items[k].createdAt <= items[k + 1].createdAt
    ELSE items[k].createdAt >= items[k + 1].createdAt

\* C8: getPosts returns its items newest-first unless the caller names
\* another sort order, and then in the caller's order.
C8_AsStated ==
  \A sort \in Sorts :
    LET r == GetPostsResponse([EmptyQuery EXCEPT !.sort = sort])
    IN  r.status = 200 /\ OrderedAs(sort, r.items)

\* C9: when createPost receives no excerpt, the stored excerpt is the first
\* 200 characters of the content followed by the ellipsis marker for content
\* longer than 200, and the content itself for content of at most 200.
C9_AsStated ==
  (req.op = "createPost" /\ res.status = 201 /\ req.body.excerpt = <<>>) =>
    LET content == req.body.content
        stored == posts[res.post.id].excerpt
    IN  IF Len(content) > 200
        THEN stored = SubSeq(content, 1, 200) \o <<".", ".", ".">>
        ELSE stored = content

\* C10: every stored post has an excerpt of at most 200 characters, after any
\* sequence of createPost and updatePost calls, the excerpt supplied or
\* derived.
C10_ExcerptAtMost200 ==
  \A i \in DOMAIN posts : Len(posts[i].excerpt) <= 200

C10_Witness ==
  /\ req.op = "updatePost"
  /\ res.status = 200
  /\ req.body.excerpt = <<>>
  /\ \E i \in DOMAIN posts : req.param = IdStr(i) /\ Len(posts[i].excerpt) = 200

\* C11: a non-empty excerpt supplied to createPost or updatePost is stored
\* verbatim; updatePost without an excerpt re-derives the stored excerpt from
\* the submitted content only if that content differs from the stored
\* content, and leaves it unchanged otherwise.
C11_ExcerptPolicy ==
  [][(req'.op \in {"createPost", "updatePost"} /\ res'.status \in {200, 201}) =>
       LET id == res'.post.id
           body == req'.body
           stored == posts'[id].excerpt
       IN  IF body.excerpt # <<>>
           THEN stored = body.excerpt
           ELSE req'.op = "updatePost" =>
                  IF body.content # posts[id].content
                  THEN stored = DeriveExcerpt(body.content)
                  ELSE stored = posts[id].excerpt]_vars

C11_Witness ==
  /\ req.op = "updatePost"
  /\ res.status = 200
  /\ req.body.excerpt = <<>>
  /\ \E i \in DOMAIN posts :
       /\ req.param = IdStr(i)
       /\ posts[i].content = req.body.content
       /\ posts[i].excerpt = <<"s">>

DropEmpty(pieces) == SelectSeq(pieces, LAMBDA piece : piece # <<>>)

TagsAsStated(tags) ==
  LET pieces == Split(tags, ",")
  IN  DropEmpty([i \in 1..Len(pieces) |-> Trim(pieces[i])])

\* C12: the tag list stored by createPost and updatePost is the input split
\* on commas, every piece trimmed, the empty pieces dropped, the order kept
\* and duplicates kept.
C12_AsStated ==
  (req.op \in {"createPost", "updatePost"} /\ res.status \in {200, 201}) =>
    posts[res.post.id].tags = TagsAsStated(req.body.tags)

PostUnchanged == posts' = posts /\ nextId' = nextId

Offending(body) ==
  {f \in {"title", "content"} : body[f] = <<>>}
  \cup {f \in {"category"} : ~IsValidObjectId(body[f])}

\* C13: createPost with a missing or empty title, a missing or empty content
\* or a category that is not a valid identifier answers 400, names exactly
\* the offending fields, and creates no post.
C13_CreateValidation ==
  [][(req'.op = "createPost" /\ Offending(req'.body) # {}) =>
       /\ res'.status = 400
       /\ res'.errors = Offending(req'.body)
       /\ PostUnchanged]_vars

C13_Witness ==
  /\ req.op = "createPost"
  /\ res.status = 400
  /\ res.errors = {"content", "category"}
  /\ req.body.category = CategoryShort
  /\ posts # <<>>

IsAddComment(op) == op \in {"addComment", "comment.addComment"}

\* C14: addComment answers with a validation error (400) when the content is
\* empty after trimming, whitespace-only content included, and with 404 when
\* the target post does not exist; in both cases no comment is stored and no
\* post is changed.
C14_AsStated ==
  [][IsAddComment(req'.op) =>
       /\ Trim(req'.body.content) = <<>> =>
            res'.status = 400 /\ posts' = posts /\ commentDocs' = commentDocs
       /\ (Trim(req'.body.content) # <<>> /\ FindById(req'.param) = {}
             /\ IsValidObjectId(req'.param)) =>
            res'.status = 404 /\ posts' = posts /\ commentDocs' = commentDocs]_vars

\* C15: a successful addComment appends exactly one comment, with the
\* requester as author and the given content, at the end of the post's
\* comment list, leaves the earlier comments and their order unchanged, and
\* answers with the updated list.
C15_AppendsOne ==
  [][(req'.op = "addComment" /\ res'.status = 201) =>
       \E i \in DOMAIN posts :
         /\ req'.param = IdStr(i)
         /\ posts'[i].comments =
              posts[i].comments \o <<[user |-> req'.actor.id,
                                      content |-> req'.body.content]>>
         /\ res'.items = posts'[i].comments
         /\ \A j \in DOMAIN posts \ {i} : posts'[j] = posts[j]]_vars

C15_Witness ==
  /\ req.op = "addComment"
  /\ res.status = 201
  /\ Len(res.items) = 2
  /\ res.items[1].user # res.items[2].user
  /\ res.items[2].user = req.actor.id

FoldedEqual(a, b) ==
  Len(a) = Len(b) /\ \A j \in 1..Len(a) : ToLower(a[j]) = ToLower(b[j])

HasSubstring(text, q) ==
  \E k \in 0..(Len(text) - Len(q)) : FoldedEqual(SubSeq(text, k + 1, k + Len(q)), q)

MatchesLiterally(post, q) ==
  \/ HasSubstring(post.title, q)
  \/ HasSubstring(post.content, q)
  \/ \E t \in 1..Len(post.tags) : HasSubstring(post.tags[t], q)

PublishedMatches(q) ==
  {i \in DOMAIN posts : posts[i].isPublished = TRUE /\ MatchesLiterally(posts[i], q)}

C16Terms == {<<>>, <<"B">>, <<"a", "B">>, <<"Y">>, <<".">>}

\* C16: searchPosts with a missing or empty query answers 400; with a
\* non-empty query it returns at most 20 posts, all published and all holding
\* the query, compared case-insensitively, as a substring of the title, the
\* content or a tag, newest first, and the 20 most recently created when more
\* than 20 match.
C16_AsStated ==
  \A q \in C16Terms :
    LET r == SearchPostsResponse(q)
        matching == SortNewestFirst(PublishedMatches(q))
    IN  IF q = <<>>
        THEN r.status = 400
        ELSE /\ r.status = 200
             /\ Len(r.items) <= 20
             /\ \A k \in 1..Len(r.items) :
                  r.items[k].isPublished = TRUE /\ MatchesLiterally(r.items[k], q)
             /\ r.items = SubSeq(matching, 1, IF Len(matching) < 20 THEN Len(matching) ELSE 20)

FlagChanged(i) ==
  i \in DOMAIN posts /\ i \in DOMAIN posts' /\ posts'[i].isPublished # posts[i].isPublished

\* C17: a post is always either a draft or published, and the published flag
\* of a post changes only in a successful updatePost of that post by its
\* author or an admin: getPost, getPosts, searchPosts, addComment and rejected
\* updates never change it.
C17_FlagChangesOnlyByUpdate ==
  /\ [](\A i \in DOMAIN posts : posts[i].isPublished \in BOOLEAN)
  /\ [][\A i \in 1..MaxPosts :
          FlagChanged(i) =>
            /\ req'.op = "updatePost"
            /\ req'.param = IdStr(i)
            /\ res'.status = 200
            /\ OwnerOrAdmin(posts[i], req'.actor)]_vars

C17_Witness ==
  /\ req.op = "updatePost"
  /\ res.status = 200
  /\ req.actor.role = "admin"
  /\ req.body.isPublished = <<>>
  /\ \E i \in DOMAIN posts :
       /\ req.param = IdStr(i)
       /\ posts[i].isPublished = FALSE
       /\ posts[i].viewCount > 0
       /\ posts[i].comments # <<>>

AllDone == \A p \in DOMAIN calls : calls[p].pc = "done"

Succeeded(op, i) ==
  {p \in DOMAIN calls :
     calls[p].op = op /\ calls[p].param = IdStr(i) /\ calls[p].status \in {200, 201}}

CommentOf(p) == [user |-> calls[p].actor.id, content |-> calls[p].body.content]

C19_AsStated ==
  \A p \in DOMAIN calls :
    (calls[p].op = "updatePost" /\ calls[p].pc = "done") =>
      \/ calls[p].status = 200 /\ calls[p].data # NoPost
      \/ calls[p].status \in {400, 403, 404} /\ calls[p].data = NoPost

Rank(pc) == CASE pc = "find" -> 0 [] pc = "write" -> 1 [] pc = "refetch" -> 2 [] pc = "done" -> 3

OneOutcome(call) ==
  /\ call.sent + call.forwarded = (IF call.pc = "done" THEN 1 ELSE 0)
  /\ call.sent = 1 => call.status \in {200, 201, 400, 403, 404}
  /\ call.forwarded = 1 => call.status = 500
  /\ (call.sent = 1 /\ call.status \in {400, 403, 404}) => ~call.wrote

StepsForward(p) ==
  calls'[p] # calls[p] =>
    /\ Rank(calls'[p].pc) > Rank(calls[p].pc)
    /\ calls'[p].status \in {400, 403, 404} =>
         posts' = posts /\ commentDocs' = commentDocs

C22_AuthorIsRequester ==
  [][(req'.op = "createPost" /\ res'.status = 201) =>
       LET id == res'.post.id
       IN  /\ id \in DOMAIN posts' /\ id \notin DOMAIN posts
           /\ posts'[id].author = req'.actor.id
           /\ res'.post.author = req'.actor.id
           /\ OwnerOrAdmin(posts'[id], req'.actor)]_vars

C22_Witness ==
  /\ req.op = "createPost"
  /\ res.status = 201
  /\ req.actor.id = "u2"
  /\ req.body.author = "adm"
  /\ posts[res.post.id].author = "u2"

\* C23: a successful updatePost leaves the post's author, slug, view count
\* and embedded comments unchanged, leaves the featured-image path unchanged
\* when no file is supplied, and replaces it by the server-relative path of
\* the new file when one is supplied.
C23_UpdateFrame ==
  [][(req'.op = "updatePost" /\ res'.status = 200) =>
       \E i \in DOMAIN posts :
         /\ req'.param = IdStr(i)
         /\ posts'[i].author = posts[i].author
         /\ posts'[i].slug = posts[i].slug
         /\ posts'[i].viewCount = posts[i].viewCount
         /\ posts'[i].comments = posts[i].comments
         /\ posts'[i].featuredImage =
              IF req'.body.file = "" THEN posts[i].featuredImage
              ELSE <<"/uploads/", req'.body.file>>]_vars

C23_Witness ==
  /\ req.op = "updatePost"
  /\ res.status = 200
  /\ req.body.file = ""
  /\ req.body.title = TitleBc
  /\ \E i \in DOMAIN posts :
       /\ req.param = IdStr(i)
       /\ posts[i].featuredImage = <<"/uploads/", FileNew>>
       /\ posts[i].slug = <<"a", "b">>
       /\ posts[i].viewCount > 0
       /\ posts[i].comments # <<>>

\* C24: updatePost overwrites: after every successful updatePost the post is
\* published exactly if the request's isPublished is the string 'true' (an
\* update without the field makes a published post a draft), and its tag list
\* is the one parsed from the request (empty when the field is omitted),
\* whatever the values were before.
C24_Overwrites ==
  [][(req'.op = "updatePost" /\ res'.status = 200) =>
       \E i \in DOMAIN posts :
         /\ req'.param = IdStr(i)
         /\ posts'[i].isPublished = (req'.body.isPublished = <<"t", "r", "u", "e">>)
         /\ posts'[i].tags = ParseTags(req'.body.tags)
         /\ req'.body.tags = <<>> => posts'[i].tags = <<>>]_vars

C24_Witness ==
  /\ req.op = "updatePost"
  /\ res.status = 200
  /\ req.body.isPublished = <<>>
  /\ req.body.tags = <<>>
  /\ \E i \in DOMAIN posts :
       /\ req.param = IdStr(i)
       /\ posts[i].isPublished = FALSE
       /\ posts[i].tags = <<>>

FirstChars(s, n) == SubSeq(s, 1, IF Len(s) < n THEN Len(s) ELSE n)

\* C25: a post created without an excerpt and only ever updated without one
\* has, after any sequence and any interleaving of updatePost calls, the
\* first 200 characters of its stored content plus the ellipsis marker as its
\* stored excerpt.
C25_AsStated ==
  \A i \in DOMAIN posts :
    posts[i].excerpt = FirstChars(posts[i].content, 200) \o <<".", ".", ".">>

ListsComment(list, author, content) ==
  \E j \in 1..Len(list) : list[j].user = author /\ list[j].content = content

\* C26: every comment added to a post through POST /posts/:postId/comments,
\* by either addComment controller, is in the comment list that a later
\* getPost of that post returns.
C26_AsStated ==
  (req.op = "getPost" /\ res.status = 200) =>
    \A k \in 1..Len(commentDocs) :
      commentDocs[k].post = IdStr(res.post.id) =>
        ListsComment(res.post.comments, commentDocs[k].author, commentDocs[k].content)

PublicRead(op) == op \in {"getPosts", "searchPosts", "getPost"}

\* C27: no unauthenticated endpoint returns an unpublished post: a draft is
\* not returned by getPosts, by searchPosts or by getPost to a requester who
\* is neither its author nor an admin, and a read of a draft does not count
\* as a view.
C27_AsStated ==
  /\ []((PublicRead(req.op) /\ res.status = 200 /\ req.actor = NoUser) =>
          /\ res.post # NoPost => res.post.isPublished = TRUE
          /\ NoDraftIn(res.items))
  /\ [][req'.op = "getPost" =>
          \A i \in DOMAIN posts :
            posts[i].isPublished = FALSE =>
              i \in DOMAIN posts' /\ posts'[i].viewCount = posts[i].viewCount]_vars

\* C28: opening a post in the edit page and submitting the form without
\* touching the publishing options keeps its state: a draft stays a draft and
\* a published post stays published after the resulting updatePost.
C28_AsStated ==
  [][(req.op = "getPost" /\ req'.op = "updatePost" /\ res'.status = 200) =>
       \A i \in DOMAIN posts :
         req'.param = IdStr(i) => posts'[i].isPublished = posts[i].isPublished]_vars

Criteria(password) ==
  {k \in {"length", "upper", "lower", "digit", "special"} :
     \/ k = "length" /\ Len(password) >= PasswordMin
     \/ k = "upper" /\ \E i \in DOMAIN password : password[i] \in UpperCase
     \/ k = "lower" /\ \E i \in DOMAIN password : password[i] \in LowerCase
     \/ k = "digit" /\ \E i \in DOMAIN password : password[i] \in DigitChars
     \/ k = "special" /\ \E i \in DOMAIN password :
          password[i] \notin (UpperCase \cup LowerCase \cup DigitChars)}

\* C29: for every password, checkPasswordStrength returns a score equal to
\* the number of satisfied criteria and a defined strength level with a label
\* and colour, so the registration form can always render the strength meter.
C29_AsStated ==
  (client.name = "register" /\ client.password # <<>>) =>
    /\ client.passwordStrength.score = Cardinality(Criteria(client.password))
    /\ \E i \in DOMAIN strengthLevels :
         client.passwordStrength.level = strengthLevels[i]

DraftDirty ==
  client.name = "create"
  /\ (client.formData.title # <<>> \/ client.formData.content # <<>>)

DraftWritten == client.storage' # client.storage /\ client.storage' # {}

DraftRemoved == client.storage # {} /\ client.storage' = {}

DraftPage == client.name \in {"create", "home"}

C30_Timers ==
  DraftPage =>
    /\ Cardinality(client.timers) <= 1
    /\ client.name = "home" => client.timers = {}
    /\ \A t \in client.timers :
         t.id = client.autoSaveTimerRef /\ t.formData = client.formData
    /\ (DraftDirty /\ client.sinceChange < AutoSaveDelay) =>
         \E t \in client.timers :
           t.remaining = AutoSaveDelay - client.sinceChange
    /\ (DraftDirty /\ client.sinceChange > AutoSaveDelay) =>
         client.storage = {DraftData(client.formData)}

C30_Writes ==
  (DraftPage /\ DraftWritten) =>
    /\ client.name = "create"
    /\ client.sinceChange = AutoSaveDelay
    /\ client.storage' = {DraftData(client.formData)}

C30_Removals ==
  /\ (DraftPage /\ DraftRemoved) => (client.awaiting /\ res.status = 201)
  /\ (DraftPage /\ client.awaiting /\ ~client.awaiting') =>
       IF res.status = 201 THEN client.storage' = {}
       ELSE client.storage' = client.storage

Unauthenticated == InFlight /\ TokenUser(calls[1].token) = {}

Store == <<posts, commentDocs, files, categories>>

C21_Stages ==
  /\ \A route \in MutatingRoutes : Pipeline(route)[1] = "auth"
  /\ Unauthenticated =>
       /\ Stage \in {"auth", "done"}
       /\ Stage = "done" => res.status = 401

C21_NoEffect == Unauthenticated => Store' = Store

\* C21: every mutating endpoint (create, update and delete post, add comment,
\* create category) runs the bearer-token check before any other stage of
\* its pipeline: a request without a valid token never reaches the upload
\* step, the validators or the handler, so it stores no file and changes no
\* post, comment or category.
C21_AuthFirst == [](C21_Stages) /\ [][C21_NoEffect]_vars

\* a request with a file and no valid token was answered 401 while posts exist
C21_Witness ==
  /\ Unauthenticated
  /\ calls[1].route = "updatePost"
  /\ calls[1].upload # ""
  /\ Stage = "done"
  /\ res.status = 401
  /\ posts # <<>>
  /\ files = {}

====
